---- MODULE Spec2Model ----
(***************************************************************************)
(* A model of the FRED API client (data/fred_data.py): construction and    *)
(* credential lookup, the lazily created aiohttp session and its scoped    *)
(* release, the request path with its exception handlers, and the          *)
(* observation decoder of get_series_obs; and of the cleaning pipeline     *)
(* Fred_Data_Cleaner (utils/fred_data_cleaner.py) that works on the table. *)
(***************************************************************************)
EXTENDS Integers, Sequences, FiniteSets, TLC

(* ------------------------------ bounds --------------------------------- *)
NumTasks == 2        \* coroutines that may use the client
MaxSessions == 3     \* aiohttp.ClientSession objects created in one run
MaxDepth == 2        \* nesting of `async with client:` per coroutine
MaxObs == 2          \* observation records in one response body
MaxRows == 2         \* rows of the table handed to Fred_Data_Cleaner

Tasks == 1..NumTasks

(* ------------------------- Python values ------------------------------- *)
NONE == "<None>"                     \* Python None where a str is expected
NoSession == 0                       \* self._session is None
Truthy(s) == s \notin {NONE, ""}     \* bool(s) for s : Optional[str]
\* faulty variant: the environment variable wins over the argument
PyOr_EnvFirst(a, b) == IF b \notin {"<None>", ""} THEN b ELSE a
PyOr(a, b) == IF Truthy(a) THEN a ELSE b      \* a or b

\* A dict is the sequence of its <<key, value>> items in insertion order.
DictHas(d, k) == \E i \in 1..Len(d) : d[i][1] = k
DictGet(d, k) == d[CHOOSE i \in 1..Len(d) : d[i][1] = k][2]
DictSet(d, k, v) ==
    IF DictHas(d, k)
      THEN [i \in 1..Len(d) |-> IF d[i][1] = k THEN <<k, v>> ELSE d[i]]
      ELSE Append(d, <<k, v>>)
RECURSIVE DictUpdate(_, _)
DictUpdate(d, other) ==
    IF other = <<>> THEN d
    ELSE DictUpdate(DictSet(d, Head(other)[1], Head(other)[2]), Tail(other))
\* str(dict): every key and every value is written out, in order.
RECURSIVE FormatDict(_)
FormatDict(d) ==
    IF d = <<>> THEN <<>> ELSE <<Head(d)[1], Head(d)[2]>> \o FormatDict(Tail(d))

(* ----------------------------- logging --------------------------------- *)
NOTSET == 0
DEBUG == 10
INFO == 20
WARNING == 30
ERROR == 40
CRITICAL == 50
LoggerLevel == DEBUG
\* Logger.isEnabledFor: a record is emitted iff its severity reaches the level.
Emit(lg, level, msg) ==
    IF level >= LoggerLevel THEN Append(lg, [level |-> level, msg |-> msg]) ELSE lg

(* ------------------------- the session property ------------------------ *)
\* faulty variants: the closed check is forgotten; a session is created on every read
NeedsNewSession_NoClosedCheck(s, cl) == s = NoSession
NeedsNewSession_Always(s, cl) == TRUE
NeedsNewSession(s, cl) == s = NoSession \/ cl[s]
SessionAfterGet(s, cl) == IF NeedsNewSession(s, cl) THEN Len(cl) + 1 ELSE s
ClosedAfterGet(s, cl) == IF NeedsNewSession(s, cl) THEN Append(cl, FALSE) ELSE cl
CallsAfterGet(s, cl, n) == IF NeedsNewSession(s, cl) THEN Append(n, 0) ELSE n

(* __aexit__: `if self._session and not self._session.closed: close()`.     *)
(* "raise" stands for the AttributeError of reading .closed on None.       *)
\* faulty variants: nothing is closed; a closed session is closed again
ExitOutcome_Never(s, cl) == "skip"
ExitOutcome_NoClosedCheck(s, cl) == IF s = NoSession THEN "skip" ELSE "close"
ExitOutcome(s, cl) ==
    IF s = NoSession THEN "skip" ELSE IF cl[s] THEN "skip" ELSE "close"
ClosedAfterExit(s, cl) ==
    IF ExitOutcome(s, cl) = "close" THEN [cl EXCEPT ![s] = TRUE] ELSE cl
CallsAfterExit(s, cl, n) ==
    IF ExitOutcome(s, cl) = "close" THEN [n EXCEPT ![s] = @ + 1] ELSE n

(* ------------------------------ inputs --------------------------------- *)
BASE_LINK == "https://api.stlouisfed.org/fred/"
ObsEndpoint == "series/observations"
CtorArgs == {NONE, "", "TEST_KEY"}
EnvValues == {NONE, "", "ENV_TEST_KEY"}
MissingKeyError == "Must provide api_key or set as an environment variable."
SeriesIds == {"GDPC1"}
CallerParams ==
    { <<>>,
      << <<"series_id", "TEST_SERIES">> >>,
      << <<"api_key", "CALLER_KEY">>, <<"units", "lin">>, <<"file_type", "xml">> >> }

(* ---------------------------- exceptions ------------------------------- *)
NoExc == ""
Parent(e) ==
    CASE e = "ContentTypeError" -> "ClientResponseError"
      [] e = "ClientResponseError" -> "ClientError"
      [] e = "ClientConnectorError" -> "ClientError"
      [] e = "ClientError" -> "Exception"
      [] e = "TimeoutError" -> "Exception"
      [] e = "JSONDecodeError" -> "Exception"
      [] e = "TypeError" -> "Exception"
      [] OTHER -> "BaseException"
RECURSIVE IsInstance(_, _)
IsInstance(e, cls) ==
    IF e = cls THEN TRUE
    ELSE IF e = "BaseException" THEN FALSE
    ELSE IsInstance(Parent(e), cls)
GetErrors == {"ClientResponseError", "ClientConnectorError", "ClientError", "TimeoutError"}
JsonErrors == {"ContentTypeError", "JSONDecodeError", "Exception"}
Statuses == {200, 404, 500}

\* faulty variant: the final `except Exception` clause is missing
HandlerText_NoCatchAll(e) ==
    IF IsInstance(e, "ClientResponseError") THEN "Http error occurred: "
    ELSE IF IsInstance(e, "ClientError")
      THEN "Following error occurred while making request: "
    ELSE NoExc
\* The except clauses of _request_data, in order; NoExc when none matches.
HandlerText(e) ==
    IF IsInstance(e, "ClientResponseError") THEN "Http error occurred: "
    ELSE IF IsInstance(e, "ClientError")
      THEN "Following error occurred while making request: "
    ELSE IF IsInstance(e, "Exception")
      THEN "Error occurred while fetching data.Error:"
    ELSE NoExc

(* ------------------------- decoded JSON bodies -------------------------- *)
Digits == {"0", "1", "2", "3", "4", "5", "6", "7", "8", "9"}
DigitVal(c) ==
    CASE c = "0" -> 0 [] c = "1" -> 1 [] c = "2" -> 2 [] c = "3" -> 3
      [] c = "4" -> 4 [] c = "5" -> 5 [] c = "6" -> 6 [] c = "7" -> 7
      [] c = "8" -> 8 [] c = "9" -> 9
NaN == -1
RECURSIVE DecVal(_)
DecVal(s) == IF s = <<>> THEN 0 ELSE 10 * DecVal(SubSeq(s, 1, Len(s) - 1)) + DigitVal(s[Len(s)])
\* pd.to_numeric(errors="coerce") on one value string (a sequence of characters)
ToNumeric(s) ==
    IF s # <<>> /\ \A i \in 1..Len(s) : s[i] \in Digits THEN DecVal(s) ELSE NaN

\* {"date": d, "value": v} records: a parsable value, the "." of a missing
\* one, and a parsable value with an earlier date
ObsRecords ==
    { [date |-> 2, value |-> <<"7">>],
      [date |-> 3, value |-> <<".">>],
      [date |-> 1, value |-> <<"1", "2">>] }
ObsLists == UNION { [1..n -> ObsRecords] : n \in 0..MaxObs }

JsonBody(type, keys, obs, text, num) ==
    [type |-> type, keys |-> keys, obs |-> obs, text |-> text, num |-> num]
NoBody == JsonBody("none", {}, <<>>, "", 0)
Bodies ==
    { JsonBody("dict", {"observations"}, o, "", 0) : o \in ObsLists }
      \cup { JsonBody("dict", {"no_observation", "count"}, <<>>, "", 0),
             JsonBody("dict", {}, <<>>, "", 0),
             JsonBody("list", {}, <<>>, "", 0),
             JsonBody("list", {}, << [date |-> 2, value |-> <<"7">>] >>, "", 0),
             JsonBody("str", {}, <<>>, "observations", 0),
             JsonBody("str", {}, <<>>, "", 0),
             JsonBody("num", {}, <<>>, "", 0),
             JsonBody("num", {}, <<>>, "", 5) }

\* bool(data)
BodyTruthy(b) ==
    CASE b.type = "dict" -> b.keys # {}
      [] b.type = "list" -> b.obs # <<>>
      [] b.type = "str" -> b.text # ""
      [] b.type = "num" -> b.num # 0
      [] OTHER -> FALSE
\* `"observations" in data` raises TypeError on a number
InRaises(b) == b.type = "num"
ObsIn(b) ==
    CASE b.type = "dict" -> "observations" \in b.keys
      [] b.type = "str" -> b.text = "observations"
      [] OTHER -> FALSE
\* data["observations"] raises TypeError on a str
IndexRaises(b) == b.type = "str"

(* ------------------------ the observation table ------------------------ *)
\* A DataFrame: its rows in order, and whether "date" has become the index.
Frame(rows, indexed) == [rows |-> rows, indexed |-> indexed]
\* faulty variant: rows whose value did not parse are kept
DropNa_KeepAll(rows) == rows
RECURSIVE DropNa(_)
DropNa(rows) ==
    IF rows = <<>> THEN <<>>
    ELSE IF Head(rows).value = NaN THEN DropNa(Tail(rows))
    ELSE <<Head(rows)>> \o DropNa(Tail(rows))
\* faulty variant: the table comes out in the reverse of the API's order
DecodeObs_Reversed(obs) ==
    IF obs = <<>> THEN Frame(<<>>, FALSE)
    ELSE Frame(DropNa([i \in 1..Len(obs) |->
                 [date |-> obs[Len(obs) + 1 - i].date,
                  value |-> ToNumeric(obs[Len(obs) + 1 - i].value)]]), TRUE)
DecodeObs(obs) ==
    IF obs = <<>> THEN Frame(<<>>, FALSE)
    ELSE Frame(DropNa([i \in 1..Len(obs) |->
                 [date |-> obs[i].date, value |-> ToNumeric(obs[i].value)]]), TRUE)

(* ------------------------------- state --------------------------------- *)
VARIABLES
    env,         \* os.environ["FRED_KEY"], NONE when unset
    status,      \* "new" before FRED_API(...), then "ok" or "raised"
    ctorArg,     \* the api_key argument given to FRED_API(...)
    ctorError,   \* message of the ValueError raised by __init__, NoExc if none
    API_KEY,     \* self.API_KEY
    _session,    \* self._session: a session id, NoSession for None
    closed,      \* closed[s]: ClientSession.closed of the s-th session created
    closeCalls,  \* closeCalls[s]: close() calls made on session s by __aexit__
    pc,          \* pc[t]: "idle", awaiting "get", awaiting "json", or "off"
    depth,       \* depth[t]: `async with client:` blocks coroutine t is inside
    ret,         \* ret[t]: the session last returned to t by the session property
    call,        \* call[t]: the client coroutine t is awaiting, "none" if none
    args,        \* args[t]: arguments of that call as the caller passed them
    req,         \* req[t]: url, params and session of the GET issued for t
    gets,        \* gets[t]: session.get calls made by t's current call
    result,      \* result[t]: what the latest step returned or raised to t
    emitted,     \* the records the latest step appended to the "fred_api" log
    lastOp       \* the operation performed by the latest step

\* Fred_Data_Cleaner (utils/fred_data_cleaner.py)
VARIABLES
    pipes,       \* pipes[i].df: self.df of the i-th Fred_Data_Cleaner instance
    pOp,         \* the pipeline call made by the latest step and what it returned
    pLog,        \* the records that call appended to the "Fred_Data_Cleaner" log
    held         \* the table object the caller kept from get_cleaned_data, NoHeld if none

\* Logs (logs.py)
VARIABLES
    loggers,     \* loggers[n]: level and attached handlers of logging.getLogger(n)
    handlers,    \* handlers[h]: the h-th logging.Handler created
    logs,        \* logs[o]: the Logs object o
    lgOp         \* the Logs call made by the latest step and the streams it wrote to

clientVars == <<env, status, ctorArg, ctorError, API_KEY, _session, closed, closeCalls,
                pc, depth, ret, call, args, req, gets, result, emitted, lastOp>>
pipeVars == <<pipes, pOp, pLog, held>>
logVars == <<loggers, handlers, logs, lgOp>>
vars == <<clientVars, pipeVars, logVars>>

ctorVars == <<env, status, ctorArg, ctorError, API_KEY>>
callVars == <<pc, call, args, req, gets, result>>

Op(name, t, exc, body) == [op |-> name, t |-> t, exc |-> exc, body |-> body]
NoFrame == [rows |-> <<>>, indexed |-> FALSE]
Res(kind, body, frame, exc) == [kind |-> kind, body |-> body, frame |-> frame, exc |-> exc]
NoResult == Res("unset", NoBody, NoFrame, NoExc)
ResNone == Res("None", NoBody, NoFrame, NoExc)
ResValue(b) == Res("value", b, NoFrame, NoExc)
ResFrame(f) == Res("frame", NoBody, f, NoExc)
ResRaise(e) == Res("raise", NoBody, NoFrame, e)
NoArgs == [endpoint |-> "", params |-> <<>>, sid |-> ""]
NoReq == [url |-> <<>>, params |-> <<>>, session |-> NoSession]
SeriesParams ==
    {[none |-> TRUE, d |-> <<>>]} \cup {[none |-> FALSE, d |-> d] : d \in CallerParams}

\* a pipeline call: the method, the instance it was called on, the instance it
\* returned (0: not a pipeline), the exception it raised, its arguments, and
\* whether the call before it was the same method on the same instance
PArgs(col, new, given, names) == [col |-> col, new |-> new, given |-> given, names |-> names]
NoPArgs == PArgs("", NONE, FALSE, <<>>)
PCall(op, self, out, exc, a, again) ==
    [op |-> op, self |-> self, ret |-> out, exc |-> exc, args |-> a, again |-> again]
NoPCall == PCall("start", 0, 0, NoExc, NoPArgs, FALSE)

\* a client that has not been constructed yet
ClientStart ==
    /\ status = "new"
    /\ ctorArg = NONE
    /\ ctorError = NoExc
    /\ API_KEY = NONE
    /\ _session = NoSession
    /\ closed = <<>>
    /\ closeCalls = <<>>
    /\ pc = [t \in Tasks |-> IF t = 1 THEN "idle" ELSE "off"]
    /\ depth = [t \in Tasks |-> 0]
    /\ ret = [t \in Tasks |-> NoSession]
    /\ call = [t \in Tasks |-> "none"]
    /\ args = [t \in Tasks |-> NoArgs]
    /\ req = [t \in Tasks |-> NoReq]
    /\ gets = [t \in Tasks |-> 0]
    /\ result = [t \in Tasks |-> NoResult]
    /\ emitted = <<>>
    /\ lastOp = Op("start", 0, NoExc, NoBody)

\* the caller holds no table
NoHeld == 0
\* no pipeline has been constructed
PipeStart ==
    /\ pipes = <<>>
    /\ pOp = NoPCall
    /\ pLog = <<>>
    /\ held = NoHeld

\* the Logs objects of a run, and the names they give their loggers
LogObjects == {"a", "b"}
LoggerNames == {"fred_api", "logs"}
\* a level argument: an int, or something else (a str)
IntLevel(v) == [int |-> TRUE, v |-> v]
StrLevel == [int |-> FALSE, v |-> 0]
\* the arguments of Logs(name, level, log_file), and whether the first and
\* the second attempt to open the log file succeed
LArgs(name, level, file, fs1, fs2) ==
    [name |-> name, level |-> level, file |-> file, fs1 |-> fs1, fs2 |-> fs2]
\* a Logs object: whether it was constructed ("ok") or its constructor raised,
\* the arguments it was constructed with, self._active_handlers,
\* self._log_path_value, and whether close() has been called on it
LogsObj(stat, exc, a, name, active, path, shut) ==
    [status |-> stat, exc |-> exc, args |-> a, name |-> name, active |-> active,
     path |-> path, closed |-> shut]
NoLogs == LogsObj("none", NoExc, LArgs(NONE, IntLevel(0), NONE, TRUE, TRUE), "", <<>>, NONE, FALSE)
\* a Logs call: the method, the object, the severity of the record, the
\* exception raised, and the streams the record was written to
LCall(op, o, sev, exc, out) == [op |-> op, o |-> o, sev |-> sev, exc |-> exc, out |-> out]
NoLCall == LCall("start", "", 0, NoExc, {})
\* no Logs object has been constructed: logging.getLogger hands out loggers
\* at NOTSET without handlers
LogsStart ==
    /\ loggers = [n \in LoggerNames |-> [level |-> NOTSET, handlers |-> <<>>]]
    /\ handlers = <<>>
    /\ logs = [o \in LogObjects |-> NoLogs]
    /\ lgOp = NoLCall

Init ==
    /\ env \in EnvValues
    /\ ClientStart
    /\ PipeStart
    /\ LogsStart

(* ---------------------------- FRED_API.__init__ ------------------------ *)
Construct(arg) ==
    /\ status = "new"
    /\ ctorArg' = arg
    /\ LET key == PyOr(arg, env) IN
         /\ API_KEY' = key
         /\ IF ~Truthy(key)
              THEN /\ emitted' = Emit(<<>>, ERROR,
                          <<"Could not load API_KEY:Loading parameters from os variable.">>)
                   /\ ctorError' = MissingKeyError
                   /\ status' = "raised"
              ELSE /\ emitted' = <<>>
                   /\ ctorError' = NoExc
                   /\ status' = "ok"
    /\ lastOp' = Op("init", 0, NoExc, NoBody)
    /\ UNCHANGED <<env, _session, closed, closeCalls, depth, ret, callVars>>
    /\ UNCHANGED <<pipeVars, logVars>>

Ready(t) == status = "ok" /\ pc[t] = "idle"
\* the caller moves on: the value returned by its previous call is dropped
Drop(t) == [result EXCEPT ![t] = NoResult]

(* ----------------------- __aenter__ / __aexit__ ------------------------ *)
AEnter(t) ==
    /\ Ready(t)
    /\ depth[t] < MaxDepth
    /\ emitted' = Emit(<<>>, INFO, <<"Entering async context manager">>)
    /\ depth' = [depth EXCEPT ![t] = @ + 1]
    /\ result' = Drop(t)
    /\ lastOp' = Op("aenter", t, NoExc, NoBody)
    /\ UNCHANGED <<ctorVars, _session, closed, closeCalls, ret, pc, call, args, req, gets>>
    /\ UNCHANGED <<pipeVars, logVars>>

\* bodyExc: the exception that ended the block, NoExc if it completed;
\* __aexit__ returns False, so the exception propagates either way.
AExit(t, bodyExc) ==
    /\ Ready(t)
    /\ depth[t] > 0
    /\ emitted' = Emit(<<>>, INFO, <<"Exiting FRED_API async context manager">>)
    /\ closed' = ClosedAfterExit(_session, closed)
    /\ closeCalls' = CallsAfterExit(_session, closed, closeCalls)
    /\ depth' = [depth EXCEPT ![t] = @ - 1]
    /\ result' = IF ExitOutcome(_session, closed) = "raise"
                   THEN [result EXCEPT ![t] = ResRaise("AttributeError")]
                   ELSE Drop(t)
    /\ lastOp' = Op("aexit", t, bodyExc, NoBody)
    /\ UNCHANGED <<ctorVars, _session, ret, pc, call, args, req, gets>>
    /\ UNCHANGED <<pipeVars, logVars>>

(* ------------------------- the session property ------------------------ *)
ReadSession(t) ==
    /\ Ready(t)
    /\ NeedsNewSession(_session, closed) => Len(closed) < MaxSessions
    /\ _session' = SessionAfterGet(_session, closed)
    /\ closed' = ClosedAfterGet(_session, closed)
    /\ closeCalls' = CallsAfterGet(_session, closed, closeCalls)
    /\ ret' = [ret EXCEPT ![t] = SessionAfterGet(_session, closed)]
    /\ emitted' = <<>>
    /\ result' = Drop(t)
    /\ lastOp' = Op("read", t, NoExc, NoBody)
    /\ UNCHANGED <<ctorVars, depth, pc, call, args, req, gets>>
    /\ UNCHANGED <<pipeVars, logVars>>

\* `await session.close()` on the session the caller was handed
SessionClose(t) ==
    /\ Ready(t)
    /\ ret[t] # NoSession
    /\ closed' = [closed EXCEPT ![ret[t]] = TRUE]
    /\ emitted' = <<>>
    /\ result' = Drop(t)
    /\ lastOp' = Op("close", t, NoExc, NoBody)
    /\ UNCHANGED <<ctorVars, _session, closeCalls, depth, ret, pc, call, args, req, gets>>
    /\ UNCHANGED <<pipeVars, logVars>>

(* ---------------------------- _request_data -------------------------- *)
\* faulty variant: keys supplied by the caller win over the injected ones
InjectedParams_CallerWins(params) ==
    DictUpdate(<< <<"api_key", API_KEY>>, <<"file_type", "json">> >>, params)
InjectedParams(params) ==
    DictUpdate(params, << <<"api_key", API_KEY>>, <<"file_type", "json">> >>)
EntryMessage(endpoint, params) ==
    <<"Request sent to:", BASE_LINK, endpoint, ",parameters used: ">> \o FormatDict(params)

\* Up to the first await: update params, log, read the session, issue the GET.
StartRequest(t, endpoint, params) ==
    LET sent == InjectedParams(params)
        s1 == SessionAfterGet(_session, closed)
        cl1 == ClosedAfterGet(_session, closed)
        n1 == CallsAfterGet(_session, closed, closeCalls)
    IN  /\ NeedsNewSession(_session, closed) => Len(closed) < MaxSessions
        /\ emitted' = Emit(<<>>, INFO, EntryMessage(endpoint, sent))
        /\ _session' = SessionAfterGet(s1, cl1)
        /\ closed' = ClosedAfterGet(s1, cl1)
        /\ closeCalls' = CallsAfterGet(s1, cl1, n1)
        /\ req' = [req EXCEPT ![t] = [url |-> <<BASE_LINK, endpoint>>, params |-> sent,
                                      session |-> SessionAfterGet(s1, cl1)]]
        /\ gets' = [gets EXCEPT ![t] = 1]
        /\ pc' = [pc EXCEPT ![t] = "get"]
        /\ result' = Drop(t)

\* What _request_data does with exception e raised inside its try block.
OnException(e) ==
    IF HandlerText(e) # NoExc
      THEN [res |-> ResNone,
            log |-> Emit(Emit(<<>>, ERROR, <<HandlerText(e), e>>),
                         INFO, <<"Request process complete.">>)]
      ELSE [res |-> ResRaise(e), log |-> <<>>]
\* What it does with the decoded body.
OnBody(b) ==
    [res |-> ResValue(b), log |-> Emit(<<>>, INFO, <<"Successful request made.">>)]

(* ---------------------------- get_series_obs --------------------------- *)
SeriesArgs(sid, p) == DictSet(IF p.none THEN <<>> ELSE p.d, "series_id", sid)
\* faulty variant: the warning does not name the series
NoObsMessage_NoId(sid) == <<"No observation found for series:">>
NoObsMessage(sid) == <<"No observation found for series:", sid>>
ProcessedMessage(sid) == <<"Successfully processed observation data for series_id:", sid>>

\* faulty variant: an empty table instead of None when there is nothing to decode
SeriesOutcome_EmptyTable(raw, sid, lg) ==
    IF raw.kind = "raise" THEN [res |-> raw, log |-> lg]
    ELSE IF raw.kind = "value" /\ BodyTruthy(raw.body) /\ InRaises(raw.body)
      THEN [res |-> ResRaise("TypeError"), log |-> lg]
    ELSE IF raw.kind = "value" /\ BodyTruthy(raw.body) /\ ObsIn(raw.body)
      THEN IF IndexRaises(raw.body)
             THEN [res |-> ResRaise("TypeError"), log |-> lg]
             ELSE [res |-> ResFrame(DecodeObs(raw.body.obs)),
                   log |-> Emit(lg, INFO, ProcessedMessage(sid))]
    ELSE [res |-> ResFrame(Frame(<<>>, FALSE)), log |-> Emit(lg, WARNING, NoObsMessage(sid))]
\* Lines 137-162: from the raw result to the returned table.
SeriesOutcome(raw, sid, lg) ==
    IF raw.kind = "raise" THEN [res |-> raw, log |-> lg]
    ELSE IF raw.kind = "value" /\ BodyTruthy(raw.body) /\ InRaises(raw.body)
      THEN [res |-> ResRaise("TypeError"), log |-> lg]
    ELSE IF raw.kind = "value" /\ BodyTruthy(raw.body) /\ ObsIn(raw.body)
      THEN IF IndexRaises(raw.body)
             THEN [res |-> ResRaise("TypeError"), log |-> lg]
             ELSE [res |-> ResFrame(DecodeObs(raw.body.obs)),
                   log |-> Emit(lg, INFO, ProcessedMessage(sid))]
    ELSE [res |-> ResNone, log |-> Emit(lg, WARNING, NoObsMessage(sid))]

\* _request_data has returned or raised: hand the outcome to whoever awaited
\* it, and pop the frame of the call.
Finish(t, out) ==
    LET fin == IF call[t] = "series" THEN SeriesOutcome(out.res, args[t].sid, out.log)
               ELSE out
    IN  /\ result' = [result EXCEPT ![t] = fin.res]
        /\ emitted' = fin.log
        /\ pc' = [pc EXCEPT ![t] = "idle"]
        /\ call' = [call EXCEPT ![t] = "none"]
        /\ args' = [args EXCEPT ![t] = NoArgs]
        /\ req' = [req EXCEPT ![t] = NoReq]
        /\ gets' = [gets EXCEPT ![t] = 0]

RequestData(t, endpoint, params) ==
    /\ Ready(t)
    /\ StartRequest(t, endpoint, params)
    /\ call' = [call EXCEPT ![t] = "request"]
    /\ args' = [args EXCEPT ![t] = [endpoint |-> endpoint, params |-> params, sid |-> ""]]
    /\ lastOp' = Op("request", t, NoExc, NoBody)
    /\ UNCHANGED <<ctorVars, depth, ret>>
    /\ UNCHANGED <<pipeVars, logVars>>

GetSeriesObs(t, sid, p) ==
    /\ Ready(t)
    /\ StartRequest(t, ObsEndpoint, SeriesArgs(sid, p))
    /\ call' = [call EXCEPT ![t] = "series"]
    /\ args' = [args EXCEPT ![t] = [endpoint |-> ObsEndpoint,
                                    params |-> IF p.none THEN <<>> ELSE p.d, sid |-> sid]]
    /\ lastOp' = Op("series", t, NoExc, NoBody)
    /\ UNCHANGED <<ctorVars, depth, ret>>
    /\ UNCHANGED <<pipeVars, logVars>>

\* `async with self.session.get(...)` raises instead of yielding a response
GetFails(t, e) ==
    /\ pc[t] = "get"
    /\ Finish(t, OnException(e))
    /\ lastOp' = Op("getfails", t, e, NoBody)
    /\ UNCHANGED <<ctorVars, _session, closed, closeCalls, depth, ret>>
    /\ UNCHANGED <<pipeVars, logVars>>

\* the response arrives; raise_for_status() raises on a 4xx/5xx status
GetResponds(t, st) ==
    /\ pc[t] = "get"
    /\ IF st >= 400
         THEN /\ Finish(t, OnException("ClientResponseError"))
              /\ lastOp' = Op("status", t, "ClientResponseError", NoBody)
         ELSE /\ pc' = [pc EXCEPT ![t] = "json"]
              /\ emitted' = <<>>
              /\ lastOp' = Op("status", t, NoExc, NoBody)
              /\ UNCHANGED <<result, call, args, req, gets>>
    /\ UNCHANGED <<ctorVars, _session, closed, closeCalls, depth, ret>>
    /\ UNCHANGED <<pipeVars, logVars>>

\* `await response.json()` raises
JsonFails(t, e) ==
    /\ pc[t] = "json"
    /\ Finish(t, OnException(e))
    /\ lastOp' = Op("jsonfails", t, e, NoBody)
    /\ UNCHANGED <<ctorVars, _session, closed, closeCalls, depth, ret>>
    /\ UNCHANGED <<pipeVars, logVars>>

\* `await response.json()` returns the decoded body
JsonReturns(t, b) ==
    /\ pc[t] = "json"
    /\ Finish(t, OnBody(b))
    /\ lastOp' = Op("json", t, NoExc, b)
    /\ UNCHANGED <<ctorVars, _session, closed, closeCalls, depth, ret>>
    /\ UNCHANGED <<pipeVars, logVars>>

Next ==
    \/ \E a \in CtorArgs : Construct(a)
    \/ \E t \in Tasks : AEnter(t)
    \/ \E t \in Tasks, e \in {NoExc, "Exception"} : AExit(t, e)
    \/ \E t \in Tasks : ReadSession(t)
    \/ \E t \in Tasks : SessionClose(t)
    \/ \E t \in Tasks, p \in CallerParams : RequestData(t, ObsEndpoint, p)
    \/ \E t \in Tasks, sid \in SeriesIds, p \in SeriesParams : GetSeriesObs(t, sid, p)
    \/ \E t \in Tasks, e \in GetErrors : GetFails(t, e)
    \/ \E t \in Tasks, st \in Statuses : GetResponds(t, st)
    \/ \E t \in Tasks, e \in JsonErrors : JsonFails(t, e)
    \/ \E t \in Tasks, b \in Bodies : JsonReturns(t, b)

Spec == Init /\ [][Next]_vars

(* ------------- one client shared by the server's tasks ---------------- *)
\* gdp_growth_plot runs once per invalidation of its inputs, every run
\* against the one client the server constructed: two runs in flight
SharedTasks == {1, 2}
\* the bodies FRED answers with: observations, or none
GdpBodies ==
    { JsonBody("dict", {"observations"}, << [date |-> 2, value |-> <<"7">>] >>, "", 0),
      JsonBody("dict", {"no_observation", "count"}, <<>>, "", 0) }

\* self.fred_client = FRED_API(), with the key in the environment
InitShared ==
    /\ env = "ENV_TEST_KEY"
    /\ status = "new"
    /\ ctorArg = NONE
    /\ ctorError = NoExc
    /\ API_KEY = NONE
    /\ _session = NoSession
    /\ closed = <<>>
    /\ closeCalls = <<>>
    /\ pc = [t \in Tasks |-> IF t \in SharedTasks THEN "idle" ELSE "off"]
    /\ depth = [t \in Tasks |-> 0]
    /\ ret = [t \in Tasks |-> NoSession]
    /\ call = [t \in Tasks |-> "none"]
    /\ args = [t \in Tasks |-> NoArgs]
    /\ req = [t \in Tasks |-> NoReq]
    /\ gets = [t \in Tasks |-> 0]
    /\ result = [t \in Tasks |-> NoResult]
    /\ emitted = <<>>
    /\ lastOp = Op("start", 0, NoExc, NoBody)
    /\ PipeStart
    /\ LogsStart

\* `df = await self.fred_client.get_series_obs('GDPC1', params=gdp_params)`
\* inside `async with self.fred_client:`
ScopedSeriesObs(t) ==
    /\ depth[t] > 0
    /\ GetSeriesObs(t, "GDPC1",
                    [none |-> FALSE,
                     d |-> << <<"observation_start", "2020-01-01">>,
                              <<"observation_end", "2024-01-01">> >>])

NextShared ==
    \/ Construct(NONE)
    \/ \E t \in SharedTasks : AEnter(t)
    \/ \E t \in SharedTasks : ScopedSeriesObs(t)
    \/ \E t \in SharedTasks, e \in GetErrors : GetFails(t, e)
    \/ \E t \in SharedTasks, st \in Statuses : GetResponds(t, st)
    \/ \E t \in SharedTasks, e \in JsonErrors : JsonFails(t, e)
    \/ \E t \in SharedTasks, b \in GdpBodies : JsonReturns(t, b)
    \/ \E t \in SharedTasks, e \in {NoExc, "Exception"} : AExit(t, e)

SpecShared == InitShared /\ [][NextShared]_vars

TypeOK ==
    /\ status \in {"new", "ok", "raised"}
    /\ _session \in 0..Len(closed)
    /\ Len(closed) <= MaxSessions
    /\ Len(closeCalls) = Len(closed)
    /\ \A t \in Tasks : pc[t] \in {"idle", "get", "json", "off"}

(* ======================================================================= *)
(*            Fred_Data_Cleaner (utils/fred_data_cleaner.py)               *)
(* ======================================================================= *)
(* ------------------------------- cells --------------------------------- *)
\* A cell is a float (an exact fraction n/d, d > 0), NaN, +inf or -inf
\* (n = 1 or -1), or a str (the realtime_* dates of a FRED record).
Abs(x) == IF x < 0 THEN -x ELSE x
Sign(x) == IF x < 0 THEN -1 ELSE IF x > 0 THEN 1 ELSE 0
RECURSIVE GCD(_, _)
GCD(a, b) == IF b = 0 THEN a ELSE GCD(b, a % b)
Cell(k, n, d) == [k |-> k, n |-> n, d |-> d]
NaNCell == Cell("nan", 0, 0)
StrCell == Cell("str", 0, 0)
InfCell(sgn) == Cell("inf", sgn, 0)
Ratio(n, d) ==
    LET g == GCD(Abs(n), Abs(d)) IN Cell("num", (Sign(d) * n) \div g, Abs(d) \div g)
Num(x) == Ratio(x, 1)
IsNull(c) == c.k = "nan"          \* DataFrame.isnull on one cell

(* ------------------------------- tables -------------------------------- *)
\* self.df: the column labels in order, and the rows in order; a row is its
\* index label and its cells by column label.
Table(cols, rows) == [cols |-> cols, rows |-> rows]
Row(date, cells) == [date |-> date, cells |-> cells]
Range(q) == {q[i] : i \in DOMAIN q}
ColSet(T) == Range(T.cols)
Column(T, c) == [i \in DOMAIN T.rows |-> T.rows[i].cells[c]]
HasNull(T) == \E i \in DOMAIN T.rows : \E c \in ColSet(T) : IsNull(T.rows[i].cells[c])
\* df[name] = vals: an existing column is overwritten in place, a new one is
\* appended as the last column
SetColumn(T, name, vals) ==
    Table(IF name \in ColSet(T) THEN T.cols ELSE Append(T.cols, name),
          [i \in DOMAIN T.rows |->
             Row(T.rows[i].date,
                 [c \in ColSet(T) \cup {name} |->
                    IF c = name THEN vals[i] ELSE T.rows[i].cells[c]])])

(* ------------------------ handle_missing_values ------------------------ *)
\* faulty variants: a backward fill; a shift of the column by one row
FFillSeq_Backward(v) ==
    [i \in DOMAIN v |->
       IF IsNull(v[i]) /\ \E j \in DOMAIN v : j > i /\ ~IsNull(v[j])
         THEN v[CHOOSE j \in DOMAIN v :
                  /\ j > i /\ ~IsNull(v[j])
                  /\ \A h \in DOMAIN v : (h > i /\ ~IsNull(v[h])) => j <= h]
         ELSE v[i]]
FFillSeq_Shift(v) ==
    IF \A i \in DOMAIN v : ~IsNull(v[i]) THEN v
    ELSE [i \in DOMAIN v |-> IF i = 1 THEN NaNCell ELSE v[i - 1]]
\* Series.ffill: a missing cell takes the value that now stands before it
RECURSIVE FFillSeq(_)
FFillSeq(v) ==
    IF v = <<>> THEN <<>>
    ELSE LET init == FFillSeq(SubSeq(v, 1, Len(v) - 1))
             last == v[Len(v)]
         IN  Append(init, IF IsNull(last) /\ init # <<>> THEN init[Len(init)] ELSE last)
\* DataFrame.ffill(inplace=True): every column is filled on its own
FFill(T) ==
    Table(T.cols,
          [i \in DOMAIN T.rows |->
             Row(T.rows[i].date, [c \in ColSet(T) |-> FFillSeq(Column(T, c))[i]])])

(* --------------------------- replace_columns --------------------------- *)
to_be_removed_col == <<"realtime_start", "realtime_end">>
\* [col for col in to_be_removed_col if col in self.df.columns]
FoundCol(T) ==
    LET Present(c) == c \in ColSet(T) IN SelectSeq(to_be_removed_col, Present)
\* faulty variant: only the first of the named columns is dropped
DropColumns_FirstOnly(T, names) ==
    LET Keep(c) == names = <<>> \/ c # names[1] IN
    Table(SelectSeq(T.cols, Keep),
          [i \in DOMAIN T.rows |->
             Row(T.rows[i].date,
                 [c \in {x \in ColSet(T) : Keep(x)} |-> T.rows[i].cells[c]])])
\* DataFrame.drop(columns=names, inplace=True)
DropColumns(T, names) ==
    LET Keep(c) == c \notin Range(names) IN
    Table(SelectSeq(T.cols, Keep),
          [i \in DOMAIN T.rows |->
             Row(T.rows[i].date, [c \in ColSet(T) \ Range(names) |-> T.rows[i].cells[c]])])

(* ------------------------- calculate_pct_change ------------------------ *)
\* faulty variant: the change is left as a fraction, not scaled to a percentage
PctCell_Fraction(c, p) ==
    IF IsNull(c) \/ IsNull(p) THEN NaNCell
    ELSE IF p.k = "inf" THEN (IF c.k = "inf" THEN NaNCell ELSE Num(-1))
    ELSE IF c.k = "inf" THEN InfCell(IF p.n < 0 THEN -c.n ELSE c.n)
    ELSE IF p.n = 0 THEN (IF c.n = 0 THEN NaNCell ELSE InfCell(Sign(c.n)))
    ELSE Ratio(c.n * p.d - p.n * c.d, c.d * p.n)
\* (c / p - 1) * 100 in float arithmetic
PctCell(c, p) ==
    IF IsNull(c) \/ IsNull(p) THEN NaNCell
    ELSE IF p.k = "inf" THEN (IF c.k = "inf" THEN NaNCell ELSE Num(-100))
    ELSE IF c.k = "inf" THEN InfCell(IF p.n < 0 THEN -c.n ELSE c.n)
    ELSE IF p.n = 0 THEN (IF c.n = 0 THEN NaNCell ELSE InfCell(Sign(c.n)))
    ELSE Ratio((c.n * p.d - p.n * c.d) * 100, c.d * p.n)
\* Series.pct_change(): current over previous row, minus one.  The default
\* fill_method pads missing values first in pandas before 3.0 and does not
\* in later ones; `pad` is the choice made by the pandas that is installed.
PctChange(v, pad) ==
    LET f == IF pad THEN FFillSeq(v) ELSE v IN
    [i \in DOMAIN v |-> IF i = 1 THEN NaNCell ELSE PctCell(f[i], f[i - 1])]
\* dividing a str raises TypeError
PctRaises(v) == \E i \in DOMAIN v : v[i].k = "str"
\* line 84: new_column_name if new_column_name else f'{column_name}_growth_rate'
FinalColumn(column_name, new_column_name) ==
    IF Truthy(new_column_name) THEN new_column_name ELSE column_name \o "_growth_rate"

(* ------------------------------ the calls ------------------------------ *)
\* line 28: super().__init__(name='Fred_Data_Cleaner', level=logging.INFO)
CleanerLevel == INFO
CleanerEmit(lg, level, msg) ==
    IF level >= CleanerLevel THEN Append(lg, [level |-> level, msg |-> msg]) ELSE lg

\* the tables a pipeline is constructed from: a raw FRED frame with its
\* realtime_* columns, a frame without a value column, and the empty frame
ValueCells == {NaNCell, Num(2), Num(3)}
RealtimeCells == {NaNCell, StrCell}
CellSeqs(cells) == UNION { [1..n -> cells] : n \in 0..MaxRows }
RawTable(v) ==
    Table(<<"realtime_start", "realtime_end", "value">>,
          [i \in DOMAIN v |->
             Row(i, [c \in {"realtime_start", "realtime_end", "value"} |->
                       IF c = "value" THEN v[i] ELSE StrCell])])
RealtimeTable(v) ==
    Table(<<"realtime_end">>, [i \in DOMAIN v |-> Row(i, [c \in {"realtime_end"} |-> v[i]])])
InputTables ==
    {Table(<<>>, <<>>)}
      \cup {RawTable(v) : v \in CellSeqs(ValueCells)}
      \cup {RealtimeTable(v) : v \in CellSeqs(RealtimeCells)}
\* the arguments callers pass
PctArgs ==
    { PArgs("value", NONE, FALSE, <<>>), PArgs("value", "", FALSE, <<>>),
      PArgs("value", "growth", FALSE, <<>>), PArgs("value", "value", FALSE, <<>>),
      PArgs("realtime_start", NONE, FALSE, <<>>), PArgs("gdp", NONE, FALSE, <<>>) }
DropArgs ==
    {PArgs("", NONE, FALSE, <<>>)}
      \cup {PArgs("", NONE, TRUE, n) : n \in {<<"value">>, <<"gdp">>}}

\* Fred_Data_Cleaner(df): self.df = df.copy()
InitPipe ==
    /\ env = NONE
    /\ ClientStart
    /\ \E T \in InputTables : pipes = << [df |-> T] >>
    /\ pOp = NoPCall
    /\ pLog = <<>>
    /\ held = NoHeld
    /\ LogsStart

\* faulty variant: a method hands back a new pipeline holding a copy of the table
Returned_Copy(self, count) == count + 1
\* `return self`: the instance the method was called on
Returned(self, count) == self
\* the instances after a call on instance i that left table T in it and
\* returned instance r
Instances(ps, i, T, r) ==
    LET upd == [ps EXCEPT ![i] = [df |-> T]] IN
    IF r \in DOMAIN ps THEN upd ELSE Append(upd, [df |-> T])
Again(i, op) == pOp.op = op /\ pOp.self = i
Chain(i, op, a, T, lg) ==
    LET r == Returned(i, Len(pipes)) IN
    /\ pipes' = Instances(pipes, i, T, r)
    /\ pOp' = PCall(op, i, r, NoExc, a, Again(i, op))
    /\ pLog' = lg
    /\ UNCHANGED <<clientVars, held, logVars>>

\* lines 31-48
HandleMissingValues(i) ==
    LET T == pipes[i].df IN
    IF HasNull(T)
      THEN Chain(i, "handle_missing_values", NoPArgs, FFill(T),
                 CleanerEmit(<<>>, INFO, <<"Successfully filled missing values.">>))
      ELSE Chain(i, "handle_missing_values", NoPArgs, T,
                 CleanerEmit(<<>>, INFO,
                     <<"No missing values to fill.Skipping forward-fill process.">>))

\* faulty variant: the fixed columns are dropped without looking which of them
\* the table has, and DataFrame.drop raises KeyError for an absent one
ReplaceColumns_NoFilter(i, a) ==
    LET T == pipes[i].df
        lg == CleanerEmit(<<>>, INFO, <<"Removing specified columns">>)
    IN  IF a.given
          THEN /\ pOp' = PCall("replace_columns", i, 0, "TypeError", a, Again(i, "replace_columns"))
               /\ pLog' = <<>>
               /\ UNCHANGED <<pipes, clientVars, held, logVars>>
        ELSE IF Range(to_be_removed_col) \subseteq ColSet(T)
          THEN Chain(i, "replace_columns", a, DropColumns(T, to_be_removed_col), lg)
        ELSE /\ pOp' = PCall("replace_columns", i, 0, "KeyError", a, Again(i, "replace_columns"))
             /\ pLog' = lg
             /\ UNCHANGED <<pipes, clientVars, held, logVars>>
\* lines 49-67.  The method has no parameter besides self: a call that names
\* columns raises TypeError before the body runs.
ReplaceColumns(i, a) ==
    LET T == pipes[i].df
        lg == CleanerEmit(<<>>, INFO, <<"Removing specified columns">>)
    IN  IF a.given
          THEN /\ pOp' = PCall("replace_columns", i, 0, "TypeError", a, Again(i, "replace_columns"))
               /\ pLog' = <<>>
               /\ UNCHANGED <<pipes, clientVars, held, logVars>>
        ELSE IF FoundCol(T) # <<>>
          THEN Chain(i, "replace_columns", a, DropColumns(T, FoundCol(T)), lg)
        ELSE Chain(i, "replace_columns", a, T,
                   CleanerEmit(lg, INFO,
                       <<"Specified columns where not found. Skipping removal">>))

\* faulty variants: an absent source column yields an all-missing growth
\* column; the first row is dropped from the table
PctOutcome_AddsMissing(T, column_name, new_column_name, pad) ==
    IF column_name \notin ColSet(T)
      THEN [df |-> SetColumn(T, FinalColumn(column_name, new_column_name),
                             [i \in DOMAIN T.rows |-> NaNCell]),
            log |-> CleanerEmit(<<>>, ERROR,
                       <<"Column<", column_name,
                         "> not found in DataFrame. Could not calculate growth rate.">>)]
    ELSE IF PctRaises(Column(T, column_name))
      THEN [df |-> T,
            log |-> CleanerEmit(<<>>, ERROR,
                       <<"Error during growth rate calculation: ", "TypeError">>)]
    ELSE [df |-> SetColumn(T, FinalColumn(column_name, new_column_name),
                           PctChange(Column(T, column_name), pad)),
          log |-> CleanerEmit(<<>>, INFO,
                     <<"Successfully calculated growth rate for column: ", column_name>>)]
PctOutcome_DropsFirst(T, column_name, new_column_name, pad) ==
    IF column_name \notin ColSet(T)
      THEN [df |-> T,
            log |-> CleanerEmit(<<>>, ERROR,
                       <<"Column<", column_name,
                         "> not found in DataFrame. Could not calculate growth rate.">>)]
    ELSE IF PctRaises(Column(T, column_name))
      THEN [df |-> T,
            log |-> CleanerEmit(<<>>, ERROR,
                       <<"Error during growth rate calculation: ", "TypeError">>)]
    ELSE LET U == SetColumn(T, FinalColumn(column_name, new_column_name),
                            PctChange(Column(T, column_name), pad))
         IN  [df |-> Table(U.cols, IF U.rows = <<>> THEN <<>> ELSE Tail(U.rows)),
              log |-> CleanerEmit(<<>>, INFO,
                         <<"Successfully calculated growth rate for column: ", column_name>>)]
\* lines 79-93: the table and the log records calculate_pct_change leaves
PctOutcome(T, column_name, new_column_name, pad) ==
    IF column_name \notin ColSet(T)
      THEN [df |-> T,
            log |-> CleanerEmit(<<>>, ERROR,
                       <<"Column<", column_name,
                         "> not found in DataFrame. Could not calculate growth rate.">>)]
    ELSE IF PctRaises(Column(T, column_name))
      THEN [df |-> T,
            log |-> CleanerEmit(<<>>, ERROR,
                       <<"Error during growth rate calculation: ", "TypeError">>)]
    ELSE [df |-> SetColumn(T, FinalColumn(column_name, new_column_name),
                           PctChange(Column(T, column_name), pad)),
          log |-> CleanerEmit(<<>>, INFO,
                     <<"Successfully calculated growth rate for column: ", column_name>>)]
\* lines 69-93
CalculatePctChange(i, column_name, new_column_name, pad) ==
    LET out == PctOutcome(pipes[i].df, column_name, new_column_name, pad) IN
    Chain(i, "calculate_pct_change", PArgs(column_name, new_column_name, FALSE, <<>>),
          out.df, out.log)

\* faulty variant: extracting the table empties the pipeline
GetCleanedData_Resets(i) ==
    /\ pipes' = [pipes EXCEPT ![i] = [df |-> Table(pipes[i].df.cols, <<>>)]]
    /\ pOp' = PCall("get_cleaned_data", i, 0, NoExc, NoPArgs, Again(i, "get_cleaned_data"))
    /\ pLog' = CleanerEmit(<<>>, INFO, <<"Returning cleaned DataFrame">>)
    /\ UNCHANGED <<clientVars, held, logVars>>
\* lines 96-104: returns self.df, which is not a pipeline
GetCleanedData(i) ==
    /\ pOp' = PCall("get_cleaned_data", i, 0, NoExc, NoPArgs, Again(i, "get_cleaned_data"))
    /\ pLog' = CleanerEmit(<<>>, INFO, <<"Returning cleaned DataFrame">>)
    /\ UNCHANGED <<pipes, clientVars, held, logVars>>
\* line 104, `return self.df`: the table object handed out is the pipeline's
\* own (the table object of instance i is i), not a copy of it
ReturnedTable(i) == i

NextPipe ==
    \/ \E i \in DOMAIN pipes : HandleMissingValues(i)
    \/ \E i \in DOMAIN pipes, a \in DropArgs : ReplaceColumns(i, a)
    \/ \E i \in DOMAIN pipes, a \in PctArgs, pad \in BOOLEAN :
         CalculatePctChange(i, a.col, a.new, pad)
    \/ \E i \in DOMAIN pipes : GetCleanedData(i)

SpecPipe == InitPipe /\ [][NextPipe]_vars

(* ======================================================================= *)
(*                            Logs (logs.py)                               *)
(* ======================================================================= *)
CONST_LOG_LEVELS == {DEBUG, INFO, WARNING, CRITICAL, ERROR, NOTSET}
Severities == {DEBUG, INFO, WARNING, ERROR, CRITICAL}
\* the level of the root logger, which a logger at NOTSET takes over
RootLevel == WARNING
\* a logging.Handler: the stream it writes to, its level, the highest
\* severity its filter lets pass, whether it is closed, and the Logs object
\* that created it
Handler(stream, level, ceiling, owner) ==
    [stream |-> stream, level |-> level, ceiling |-> ceiling, closed |-> FALSE, owner |-> owner]
\* lines 92-102: the logger of that name, reset to NOTSET and stripped of
\* the handlers it had
LoggerName(name) == IF Truthy(name) THEN name ELSE "logs"
ConfigureLogger(lgs, n) == [lgs EXCEPT ![n] = [level |-> NOTSET, handlers |-> <<>>]]
\* lines 143-147: the logger and every active handler take the level
SetLevels(hs, active, level) ==
    [h \in DOMAIN hs |-> IF h \in Range(active) THEN [hs[h] EXCEPT !.level = level] ELSE hs[h]]

\* lines 57-59 and 68: _config_console_handlers, then the level setter
AfterConsole(st, o, n, level) ==
    LET out == Len(st.handlers) + 1
        err == Len(st.handlers) + 2
        hs == st.handlers \o <<Handler("stdout", DEBUG, WARNING, o),
                                 Handler("stderr", ERROR, CRITICAL, o)>>
    IN  [loggers |-> [st.loggers EXCEPT ![n] = [level |-> level, handlers |-> <<err, out>>]],
         handlers |-> SetLevels(hs, <<out, err>>, level),
         obj |-> [active |-> <<out, err>>, path |-> NONE, status |-> "ok", exc |-> NoExc]]
\* lines 61, 68-69: _set_file_handler succeeds, then the level setter; the
\* path setter finds the path unchanged
AfterFile(st, o, n, level, file) ==
    LET h == Len(st.handlers) + 1
        hs == Append(st.handlers, Handler("file", st.loggers[n].level, CRITICAL, o))
    IN  [loggers |-> [st.loggers EXCEPT ![n] = [level |-> level, handlers |-> <<h>>]],
         handlers |-> SetLevels(hs, <<h>>, level),
         obj |-> [active |-> <<h>>, path |-> file, status |-> "ok", exc |-> NoExc]]
\* lines 62-69: _set_file_handler raises OSError; _set_stream_handler adds a
\* stdout handler that is not put on the active list; the level setter; and
\* the path setter, which finds the path changed and opens the file again:
\* when that fails too, its handler calls self._setup_console_handlers, an
\* attribute Logs does not have
AfterFallback(st, o, n, level, file, again) ==
    LET h == Len(st.handlers) + 1
        f == Len(st.handlers) + 2
        hs == Append(st.handlers, Handler("stdout", st.loggers[n].level, CRITICAL, o))
    IN  IF again
          THEN [loggers |-> [st.loggers EXCEPT ![n] = [level |-> level, handlers |-> <<h, f>>]],
                handlers |-> Append(hs, Handler("file", level, CRITICAL, o)),
                obj |-> [active |-> <<f>>, path |-> file, status |-> "ok", exc |-> NoExc]]
          ELSE [loggers |-> [st.loggers EXCEPT ![n] = [level |-> level, handlers |-> <<h>>]],
                handlers |-> hs,
                obj |-> [active |-> <<>>, path |-> file, status |-> "raised",
                         exc |-> "AttributeError"]]

\* the arguments FRED_API.__init__ passes to Logs.__init__
FredApiArgs == LArgs("fred_api", IntLevel(DEBUG), NONE, TRUE, TRUE)
\* the constructor's inputs: the name FRED_API passes or none, every level
\* of CONST_LOG_LEVELS, an int outside it, a str, and a console or a file
\* configuration whose file can or cannot be opened
LogFile == "logs/app.log"
LogsArgs ==
    {LArgs(n, l, NONE, TRUE, TRUE) :
        n \in {"fred_api", NONE},
        l \in {IntLevel(v) : v \in CONST_LOG_LEVELS \cup {5}} \cup {StrLevel}}
    \cup {LArgs("fred_api", IntLevel(v), LogFile, TRUE, TRUE) : v \in {NOTSET, INFO}}
    \cup {LArgs("fred_api", IntLevel(INFO), LogFile, FALSE, again) : again \in BOOLEAN}

\* Logs.__init__(name, level, log_file), lines 22-69
LogsInit(o, a) ==
    /\ logs[o].status = "none"
    /\ LET n == LoggerName(a.name)
           st == [loggers |-> ConfigureLogger(loggers, n), handlers |-> handlers]
           exc == IF ~a.level.int THEN "TypeError"
                  ELSE IF a.level.v \notin CONST_LOG_LEVELS THEN "ValueError"
                  ELSE NoExc
           r == IF a.file = NONE THEN AfterConsole(st, o, n, a.level.v)
                ELSE IF a.fs1 THEN AfterFile(st, o, n, a.level.v, a.file)
                ELSE AfterFallback(st, o, n, a.level.v, a.file, a.fs2)
       IN  IF exc # NoExc
             THEN /\ logs' = [logs EXCEPT ![o] = LogsObj("raised", exc, a, "", <<>>, NONE, FALSE)]
                  /\ lgOp' = LCall("init", o, 0, exc, {})
                  /\ UNCHANGED <<loggers, handlers>>
             ELSE /\ loggers' = r.loggers
                  /\ handlers' = r.handlers
                  /\ logs' = [logs EXCEPT ![o] = LogsObj(r.obj.status, r.obj.exc, a, n,
                                                         r.obj.active, r.obj.path, FALSE)]
                  /\ lgOp' = LCall("init", o, 0, r.obj.exc, {})
    /\ UNCHANGED <<clientVars, pipeVars>>

\* the streams a record of severity sev is written to: none when the logger
\* is not enabled for it (Logger.isEnabledFor: a logger at NOTSET has the
\* root logger's level); otherwise every attached handler whose level and
\* filter it passes; a logger with no handler (and propagate False) leaves
\* it to logging.lastResort, which writes WARNING and above to stderr
Written(lg, hs, sev) ==
    IF sev < (IF lg.level = NOTSET THEN RootLevel ELSE lg.level) THEN {}
    ELSE IF lg.handlers = <<>> THEN (IF sev >= WARNING THEN {"stderr"} ELSE {})
    ELSE {hs[lg.handlers[k]].stream : k \in {j \in DOMAIN lg.handlers :
             sev >= hs[lg.handlers[j]].level /\ sev <= hs[lg.handlers[j]].ceiling}}

\* Logs.debug / info / warning / error / critical, lines 263-305
LogMsg(o, sev) ==
    /\ logs[o].status = "ok"
    /\ lgOp' = LCall("log", o, sev, NoExc, Written(loggers[logs[o].name], handlers, sev))
    /\ UNCHANGED <<loggers, handlers, logs, clientVars, pipeVars>>

\* the handlers the loop of _remove_all_handlers (lines 196-202) visits: the
\* list is cleared inside the loop body, so the iteration ends after the
\* first handler
Removed(active) == IF active = <<>> THEN {} ELSE {active[1]}

\* Logs.close(), lines 307-312
LogsClose(o) ==
    /\ logs[o].status = "ok"
    /\ ~logs[o].closed
    /\ LET n == logs[o].name
           gone == Removed(logs[o].active)
           IsKept(h) == h \notin gone
       IN  /\ loggers' = [loggers EXCEPT ![n].handlers = SelectSeq(@, IsKept)]
           /\ handlers' = [h \in DOMAIN handlers |->
                             IF h \in gone THEN [handlers[h] EXCEPT !.closed = TRUE]
                             ELSE handlers[h]]
           /\ logs' = [logs EXCEPT ![o].active = IF gone = {} THEN @ ELSE <<>>,
                                   ![o].closed = TRUE]
    /\ lgOp' = LCall("close", o, 0, NoExc, {})
    /\ UNCHANGED <<clientVars, pipeVars>>

InitLogs ==
    /\ env = NONE
    /\ ClientStart
    /\ PipeStart
    /\ LogsStart

NextLogs ==
    \/ \E o \in LogObjects, a \in LogsArgs : LogsInit(o, a)
    \/ \E o \in LogObjects, sev \in Severities : LogMsg(o, sev)
    \/ \E o \in LogObjects : LogsClose(o)

SpecLogs == InitLogs /\ [][NextLogs]_vars

(* --------------------------- the pipeline's caller --------------------- *)
\* app_server.py:95 calls .str_to_numb() on the pipeline; Fred_Data_Cleaner
\* defines no attribute of that name, so the lookup raises AttributeError.
Methods ==
    {"handle_missing_values", "replace_columns", "calculate_pct_change",
     "get_cleaned_data", "export_file"}
StrToNumb(i) ==
    /\ pOp' = PCall("str_to_numb", i, 0,
                    IF "str_to_numb" \in Methods THEN NoExc ELSE "AttributeError",
                    NoPArgs, Again(i, "str_to_numb"))
    /\ pLog' = <<>>
    /\ UNCHANGED <<pipes, clientVars, held, logVars>>
\* gdp_df = (cleaner ... .get_cleaned_data()): the caller keeps the table
\* that get_cleaned_data has just returned
Retain ==
    /\ pOp.op = "get_cleaned_data"
    /\ held' = ReturnedTable(pOp.self)
    /\ UNCHANGED <<pipes, pOp, pLog, clientVars, logVars>>
\* the caller empties the table it holds, in place
CallerMutates ==
    /\ held # NoHeld
    /\ pipes[held].df.rows # <<>>
    /\ pipes' = [pipes EXCEPT ![held] = [df |-> Table(pipes[held].df.cols, <<>>)]]
    /\ UNCHANGED <<pOp, pLog, held, clientVars, logVars>>
\* the chain of gdp_growth_plot (app_server.py:90-98), every method with its
\* default arguments, and what the caller does with the table
NextCaller ==
    \/ \E i \in DOMAIN pipes : HandleMissingValues(i)
    \/ \E i \in DOMAIN pipes : ReplaceColumns(i, PArgs("", NONE, FALSE, <<>>))
    \/ \E i \in DOMAIN pipes : StrToNumb(i)
    \/ \E i \in DOMAIN pipes, pad \in BOOLEAN : CalculatePctChange(i, "value", NONE, pad)
    \/ \E i \in DOMAIN pipes : GetCleanedData(i)
    \/ Retain
    \/ CallerMutates

SpecCaller == InitPipe /\ [][NextCaller]_vars

(* ======================================================================= *)
(*                               properties                                *)
(* ======================================================================= *)
OpenSessions == {s \in DOMAIN closed : ~closed[s]}
\* a step of coroutine t that completes the call it was awaiting
Completes(t) == pc[t] \in {"get", "json"} /\ pc'[t] = "idle"
Logged(records, level) == \E i \in DOMAIN records : records[i].level = level
LoggedMsg(records, level, msg) ==
    \E i \in DOMAIN records : records[i].level = level /\ records[i].msg = msg
Keys(d) == {d[i][1] : i \in DOMAIN d}
Reserved == {"api_key", "file_type"}

\* C1: a client never has more than one open session, and the session
\* property never hands out a closed session.
C1_AtMostOneOpenSession ==
    /\ Cardinality(OpenSessions) <= 1
    /\ _session # NoSession => OpenSessions \subseteq {_session}
    /\ lastOp.op = "read" =>
         /\ ret[lastOp.t] # NoSession
         /\ ret[lastOp.t] = _session
         /\ ~closed[ret[lastOp.t]]
C1_Witness ==
    /\ lastOp.op = "read"
    /\ Len(closed) = 3
    /\ closed[1] /\ closed[2] /\ ~closed[3]

\* C2: a read of the session property returns the session the previous read
\* returned if that session has not been closed since, and otherwise a
\* different session, which is open.
C2_SessionReuse ==
    [][\A t \in Tasks :
         (lastOp'.op = "read" /\ lastOp'.t = t /\ ret[t] # NoSession) =>
            IF closed[ret[t]]
              THEN ret'[t] # ret[t] /\ ~closed'[ret'[t]]
              ELSE ret'[t] = ret[t]]_vars
C2_Witness ==
    /\ lastOp.op = "read"
    /\ ret[1] = 2
    /\ closed[1] /\ closeCalls[1] = 0
    /\ ~closed[2]

\* C3: a scope exit closes the client's open session, exactly once, whether
\* or not the block raised; afterwards the client holds no open session;
\* no step other than a scope exit (or the caller's own close()) closes a
\* session, and no session is closed twice by scope exits.
C3_ScopeExitCloses ==
    [][/\ lastOp'.op = "aexit" =>
            /\ \A s \in DOMAIN closed :
                 IF s = _session /\ ~closed[s]
                   THEN closed'[s] /\ closeCalls'[s] = closeCalls[s] + 1
                   ELSE closed'[s] = closed[s] /\ closeCalls'[s] = closeCalls[s]
            /\ _session' = NoSession \/ closed'[_session']
            /\ OpenSessions' = {}
       /\ lastOp'.op \notin {"aexit", "close"} =>
            \A s \in DOMAIN closed : closed'[s] = closed[s] /\ closeCalls'[s] = closeCalls[s]
       /\ \A s \in DOMAIN closeCalls' : closeCalls'[s] <= 1]_vars
C3_Witness ==
    /\ lastOp.op = "aexit"
    /\ lastOp.exc = "Exception"
    /\ _session = 1
    /\ closed[1] /\ closeCalls[1] = 1

\* C4: a release that finds no session, or a closed one, closes nothing and
\* does not raise; a release directly after a release changes nothing.
C4_ReleaseIdempotent ==
    [][\A t \in Tasks :
         (lastOp'.op = "aexit" /\ lastOp'.t = t) =>
            /\ result'[t].kind # "raise"
            /\ (_session = NoSession \/ closed[_session] \/ lastOp.op = "aexit") =>
                 UNCHANGED <<_session, closed, closeCalls>>]_vars
C4_Witness ==
    /\ lastOp.op = "aexit"
    /\ _session = NoSession
    /\ closed = <<>>
    /\ depth[1] = 0

\* C5: the credential is the argument when non-empty and otherwise FRED_KEY;
\* when both are empty construction raises the ValueError, and then no
\* session exists and no request was issued.
C5_Construction ==
    /\ status = "ok" =>
         /\ API_KEY = IF ctorArg \notin {NONE, ""} THEN ctorArg ELSE env
         /\ API_KEY \notin {NONE, ""}
         /\ ctorError = NoExc
    /\ status = "raised" =>
         /\ ctorArg \in {NONE, ""} /\ env \in {NONE, ""}
         /\ ctorError = MissingKeyError
         /\ closed = <<>> /\ _session = NoSession
         /\ \A t \in Tasks : gets[t] = 0 /\ pc[t] \in {"idle", "off"}
    /\ (status # "new" /\ ctorArg \in {NONE, ""} /\ env \in {NONE, ""}) => status = "raised"
C5_Witness ==
    /\ status = "raised"
    /\ ctorArg = NONE
    /\ env = ""
    /\ Logged(emitted, ERROR)

\* C6: when the GET, the status check or the body read fails, the awaited
\* call raises nothing and logs an error record, and _request_data returns None.
C6_FailuresBecomeNone ==
    [][\A t \in Tasks :
         (Completes(t) /\ lastOp'.t = t /\ lastOp'.exc # NoExc) =>
            /\ result'[t].kind # "raise"
            /\ Logged(emitted', ERROR)
            /\ call[t] = "request" => result'[t] = ResNone]_vars
C6_Witness ==
    /\ lastOp.op = "jsonfails"
    /\ lastOp.exc = "JSONDecodeError"
    /\ result[1] = ResNone
    /\ LoggedMsg(emitted, ERROR, <<"Error occurred while fetching data.Error:", "JSONDecodeError">>)

\* C7: _request_data returns None when the body is not valid JSON or is JSON
\* that is not a mapping; whatever else it returns is a mapping.
C7_NonMappingIsNone ==
    [][\A t \in Tasks :
         (Completes(t) /\ call[t] = "request") =>
            /\ result'[t].kind = "value" => result'[t].body.type = "dict"
            /\ lastOp'.op = "jsonfails" => result'[t] = ResNone
            /\ (lastOp'.op = "json" /\ lastOp'.body.type # "dict") => result'[t] = ResNone]_vars

\* C8: a successful _request_data call has issued one GET, to BASE_LINK +
\* endpoint, with the caller's parameters plus the client's api_key and
\* file_type = "json" (the client's values replacing the caller's), and
\* returns the decoded body as it is.
C8_SuccessfulRequest ==
    [][\A t \in Tasks :
         (call[t] = "request" /\ lastOp'.op = "json" /\ lastOp'.t = t) =>
            /\ gets[t] = 1
            /\ req[t].url = <<BASE_LINK, args[t].endpoint>>
            /\ Keys(req[t].params) = Keys(args[t].params) \cup Reserved
            /\ Len(req[t].params) = Cardinality(Keys(req[t].params))
            /\ \A k \in Keys(args[t].params) \ Reserved :
                 DictGet(req[t].params, k) = DictGet(args[t].params, k)
            /\ DictGet(req[t].params, "api_key") = API_KEY
            /\ DictGet(req[t].params, "file_type") = "json"
            /\ result'[t] = ResValue(lastOp'.body)]_vars
C8_Witness ==
    /\ lastOp.op = "json"
    /\ result[1].kind = "value"
    /\ result[1].body.type = "dict"
    /\ Len(result[1].body.obs) = 2

\* C9: the credential appears in no log record.
C9_CredentialNotLogged ==
    status = "ok" =>
        \A i \in DOMAIN emitted : \A j \in DOMAIN emitted[i].msg : emitted[i].msg[j] # API_KEY

\* the response from which get_series_obs has nothing to decode: the request
\* failed, or the decoded body is a mapping without "observations"
NothingToDecode(op) ==
    \/ op.exc # NoExc
    \/ op.op = "json" /\ op.body.type = "dict" /\ "observations" \notin op.body.keys

\* C10 as stated: get_series_obs never returns None; with nothing to decode
\* it logs a warning and returns an empty table.
C10_NeverNone ==
    [][\A t \in Tasks :
         (Completes(t) /\ call[t] = "series" /\ lastOp'.t = t) =>
            /\ result'[t].kind # "None"
            /\ NothingToDecode(lastOp') =>
                 /\ Logged(emitted', WARNING)
                 /\ result'[t] = ResFrame(Frame(<<>>, FALSE))]_vars

\* C10 amended: with nothing to decode, get_series_obs logs a warning and
\* returns None; it returns a table only for a mapping with "observations".
C10_NoneWhenNothingToDecode ==
    [][\A t \in Tasks :
         (Completes(t) /\ call[t] = "series" /\ lastOp'.t = t) =>
            /\ NothingToDecode(lastOp') =>
                 /\ LoggedMsg(emitted', WARNING, NoObsMessage(args[t].sid))
                 /\ result'[t] = ResNone
            /\ result'[t].kind = "frame" =>
                 /\ lastOp'.body.type = "dict"
                 /\ "observations" \in lastOp'.body.keys]_vars
C10_Witness ==
    /\ lastOp.op = "json"
    /\ lastOp.body.type = "dict"
    /\ lastOp.body.keys = {"no_observation", "count"}
    /\ result[1] = ResNone
    /\ Logged(emitted, WARNING)

\* C11: when the request yields None or a mapping without "observations",
\* get_series_obs has made exactly one request attempt, logs the warning
\* "No observation found for series:<series_id>" and returns None.
C11_OneAttemptWarningNone ==
    [][\A t \in Tasks :
         (Completes(t) /\ call[t] = "series" /\ lastOp'.t = t /\ NothingToDecode(lastOp')) =>
            /\ gets[t] = 1
            /\ \E i \in DOMAIN emitted' :
                 /\ emitted'[i].level = WARNING
                 /\ emitted'[i].msg = <<"No observation found for series:", args[t].sid>>
            /\ result'[t] = ResNone]_vars
C11_Witness ==
    /\ lastOp.op = "getfails"
    /\ result[1] = ResNone
    /\ LoggedMsg(emitted, WARNING, <<"No observation found for series:", "GDPC1">>)

\* the records of a response whose value parses as a number, in the API's order
IsParsable(r) == ToNumeric(r.value) # NaN
Parsable(obs) == SelectSeq(obs, IsParsable)
HasObservations(op) ==
    op.op = "json" /\ op.body.type = "dict" /\ "observations" \in op.body.keys
Ascending(dates) == \A i, j \in DOMAIN dates : i < j => dates[i] <= dates[j]

C13_SortedByDate ==
    [][\A t \in Tasks :
         (Completes(t) /\ call[t] = "series" /\ lastOp'.t = t /\ HasObservations(lastOp')) =>
            Ascending([i \in DOMAIN result'[t].frame.rows |-> result'[t].frame.rows[i].date])]_vars

\* C13 amended: the returned table holds the retained records in the order the
\* API returned them, without re-sorting; it is ordered by date ascending
\* whenever the API returned the records in ascending date order.
C13_ApiOrderKept ==
    [][\A t \in Tasks :
         (Completes(t) /\ call[t] = "series" /\ lastOp'.t = t /\ HasObservations(lastOp')) =>
            LET obs == lastOp'.body.obs
                rows == result'[t].frame.rows
                dates == [i \in DOMAIN rows |-> rows[i].date]
            IN  /\ dates = [i \in DOMAIN Parsable(obs) |-> Parsable(obs)[i].date]
                /\ Ascending([i \in DOMAIN obs |-> obs[i].date]) => Ascending(dates)]_vars
C13_Witness ==
    /\ HasObservations(lastOp)
    /\ result[1].kind = "frame"
    /\ Len(result[1].frame.rows) = 2
    /\ result[1].frame.rows[1].date > result[1].frame.rows[2].date

(* --------------------------- Fred_Data_Cleaner ------------------------- *)
Chainable == {"handle_missing_values", "replace_columns", "calculate_pct_change"}
\* the table of the instance the latest call was made on, before and after
Before == pipes[pOp'.self].df
After == pipes'[pOp'.self].df
Dates(T) == [i \in DOMAIN T.rows |-> T.rows[i].date]
WellFormed(T) == \A i \in DOMAIN T.rows : DOMAIN T.rows[i].cells = ColSet(T)

\* C14: every chainable operation returns, on every path, the pipeline it
\* was called on and never a new one, so a chain works on a single table.
C14_ReturnsSelf ==
    /\ Len(pipes) = 1
    /\ (pOp.op \in Chainable /\ pOp.exc = NoExc) => pOp.ret = pOp.self
C14_Witness ==
    /\ pOp.op = "calculate_pct_change"
    /\ pOp.args.col = "realtime_start"
    /\ Logged(pLog, ERROR)
    /\ pOp.ret = 1
    /\ Len(pipes[1].df.rows) = 2

\* C15: after handle_missing_values every cell that was missing and has an
\* earlier non-missing cell in its column holds the nearest preceding
\* non-missing value; cells that were not missing, the row count, the row
\* order and the columns are unchanged; a table without missing values is
\* unchanged.
C15_ForwardFill ==
    [][pOp'.op = "handle_missing_values" =>
         /\ After.cols = Before.cols
         /\ Dates(After) = Dates(Before)
         /\ WellFormed(After)
         /\ \A i \in DOMAIN Before.rows : \A c \in ColSet(Before) :
              LET old == Before.rows[i].cells[c]
                  Earlier == {j \in 1..(i - 1) : ~IsNull(Before.rows[j].cells[c])}
              IN  /\ ~IsNull(old) => After.rows[i].cells[c] = old
                  /\ (IsNull(old) /\ Earlier # {}) =>
                       After.rows[i].cells[c] =
                          Before.rows[CHOOSE j \in Earlier : \A h \in Earlier : h <= j].cells[c]
         /\ ~HasNull(Before) => After = Before]_vars
C15_Witness ==
    /\ pOp.op = "handle_missing_values"
    /\ LoggedMsg(pLog, INFO, <<"Successfully filled missing values.">>)
    /\ pipes[1].df.cols = <<"realtime_start", "realtime_end", "value">>
    /\ Len(pipes[1].df.rows) = 2
    /\ pipes[1].df.rows[1].cells["value"] = Num(3)
    /\ pipes[1].df.rows[2].cells["value"] = Num(3)

\* C16: handle_missing_values applied a second time changes nothing.
C16_FillIdempotent ==
    [][(pOp.op = "handle_missing_values" /\ pOp'.op = "handle_missing_values"
          /\ pOp'.self = pOp.self) => pipes' = pipes]_vars
C16_Witness ==
    /\ pOp.op = "handle_missing_values"
    /\ pOp.again
    /\ pipes[1].df.cols = <<"realtime_start", "realtime_end", "value">>
    /\ Len(pipes[1].df.rows) = 2
    /\ pipes[1].df.rows[1].cells["value"] = Num(2)
    /\ pipes[1].df.rows[2].cells["value"] = Num(2)

\* the table T without the columns in `names`: the other columns in their
\* order, every row, and the cells of the other columns
Without(T, U, names) ==
    LET Kept(c) == c \notin names IN
    /\ U.cols = SelectSeq(T.cols, Kept)
    /\ Dates(U) = Dates(T)
    /\ \A i \in DOMAIN T.rows :
         /\ DOMAIN U.rows[i].cells = ColSet(T) \ names
         /\ \A c \in ColSet(T) \ names : U.rows[i].cells[c] = T.rows[i].cells[c]

\* C17 as stated: the column-dropping operation removes exactly the columns
\* the caller names that are present, and nothing else; on a table that lacks
\* every named column the output equals the input and no error is raised.
C17_DropsNamedColumns ==
    [][pOp'.op = "replace_columns" =>
         /\ pOp'.exc = NoExc
         /\ Without(Before, After, Range(pOp'.args.names))]_vars

\* C17 amended: replace_columns accepts no column names (a call that passes
\* some raises TypeError and changes nothing); it removes exactly those of
\* realtime_start and realtime_end that are present and nothing else, and on
\* a table that has neither the output equals the input and no error is raised.
C17_DropsRealtimeColumns ==
    [][pOp'.op = "replace_columns" =>
         IF pOp'.args.given
           THEN pOp'.exc = "TypeError" /\ pipes' = pipes
           ELSE /\ pOp'.exc = NoExc
                /\ ~Logged(pLog', ERROR)
                /\ Without(Before, After, {"realtime_start", "realtime_end"})
                /\ ColSet(Before) \cap {"realtime_start", "realtime_end"} = {} =>
                     After = Before]_vars
C17_Witness ==
    /\ pOp.op = "replace_columns"
    /\ ~pOp.args.given
    /\ pLog = CleanerEmit(<<>>, INFO, <<"Removing specified columns">>)
    /\ pipes[1].df.cols = <<"value">>
    /\ Len(pipes[1].df.rows) = 2

\* C18 as stated: calculate_pct_change on a table of n >= 1 rows that has the
\* source column leaves n - 1 rows, the first row being dropped; no other
\* pipeline operation reduces the row count.
C18_FirstRowDropped ==
    [][/\ (pOp'.op = "calculate_pct_change" /\ pOp'.args.col \in ColSet(Before)
             /\ Len(Before.rows) >= 1) =>
            Dates(After) = Tail(Dates(Before))
       /\ pOp'.op \in {"handle_missing_values", "replace_columns", "get_cleaned_data"} =>
            Len(After.rows) >= Len(Before.rows)]_vars

\* C18 amended: calculate_pct_change drops no row: a table of n rows that has
\* the source column still has its n rows afterwards, and where the growth
\* column is computed its value in the first row is missing; no pipeline
\* operation reduces the row count.
C18_RowsKept ==
    [][/\ pOp'.op \in Chainable \cup {"get_cleaned_data"} => Dates(After) = Dates(Before)
       /\ (pOp'.op = "calculate_pct_change" /\ pOp'.args.col \in ColSet(Before)
             /\ Len(Before.rows) >= 1 /\ ~Logged(pLog', ERROR)) =>
            LET out == FinalColumn(pOp'.args.col, pOp'.args.new) IN
            /\ out \in ColSet(After)
            /\ IsNull(After.rows[1].cells[out])]_vars
C18_Witness ==
    /\ pOp.op = "calculate_pct_change"
    /\ pOp.args.col = "value"
    /\ pOp.args.new = NONE
    /\ Len(pipes[1].df.rows) = 2
    /\ Dates(pipes[1].df) = <<1, 2>>
    /\ "value_growth_rate" \in ColSet(pipes[1].df)
    /\ IsNull(pipes[1].df.rows[1].cells["value_growth_rate"])
    /\ ~IsNull(pipes[1].df.rows[2].cells["value_growth_rate"])

\* a finite number
IsNum(c) == c.k = "num"
\* g = (c - p) / p * 100, for finite c and p with p # 0
IsGrowth(g, c, p) ==
    /\ IsNum(g)
    /\ g.n * (c.d * p.n) = (c.n * p.d - p.n * c.d) * 100 * g.d

\* C19 as stated: after calculate_pct_change(column, new_column_name) the
\* output column holds (v[i] - v[i-1]) / v[i-1] * 100 in every row i that has
\* a previous row, v being the source column (a missing operand gives a
\* missing result); the output column is named new_column_name when that is
\* given and "<column>_growth_rate" otherwise; the source column's values
\* are unchanged.
C19_GrowthEveryRow ==
    [][(pOp'.op = "calculate_pct_change" /\ pOp'.args.col \in ColSet(Before)) =>
         LET v == Column(Before, pOp'.args.col)
             out == IF pOp'.args.new \notin {NONE, ""} THEN pOp'.args.new
                    ELSE pOp'.args.col \o "_growth_rate"
         IN  /\ out \in ColSet(After)
             /\ \A i \in DOMAIN v : i > 1 =>
                  IF IsNum(v[i]) /\ IsNum(v[i - 1]) /\ v[i - 1].n # 0
                    THEN IsGrowth(After.rows[i].cells[out], v[i], v[i - 1])
                    ELSE ~IsNum(After.rows[i].cells[out])
             /\ Column(After, pOp'.args.col) = v]_vars

\* C19 amended: after calculate_pct_change(column, new_column_name) on a table
\* whose source column is present and numeric, the output column holds
\* (v[i] - v[i-1]) / v[i-1] * 100 in every row i whose value and previous
\* value are both present; the output column is named new_column_name when
\* that is a non-empty string and "<column>_growth_rate" otherwise; the
\* source column's values are unchanged unless the output column is the
\* source column itself, which is then overwritten with the growth values.
C19_GrowthWherePresent ==
    [][(pOp'.op = "calculate_pct_change" /\ pOp'.args.col \in ColSet(Before)
          /\ \A i \in DOMAIN Before.rows : Before.rows[i].cells[pOp'.args.col].k # "str") =>
         LET v == Column(Before, pOp'.args.col)
             out == IF pOp'.args.new \notin {NONE, ""} THEN pOp'.args.new
                    ELSE pOp'.args.col \o "_growth_rate"
         IN  /\ out \in ColSet(After)
             /\ \A i \in DOMAIN v :
                  (i > 1 /\ IsNum(v[i]) /\ IsNum(v[i - 1]) /\ v[i - 1].n # 0) =>
                     IsGrowth(After.rows[i].cells[out], v[i], v[i - 1])
             /\ out # pOp'.args.col => Column(After, pOp'.args.col) = v]_vars
C19_Witness ==
    /\ pOp.op = "calculate_pct_change"
    /\ pOp.args.col = "value"
    /\ pOp.args.new = "growth"
    /\ {"value", "growth"} \subseteq ColSet(pipes[1].df)
    /\ Len(pipes[1].df.rows) = 2
    /\ pipes[1].df.rows[1].cells["value"] = Num(2)
    /\ pipes[1].df.rows[2].cells["value"] = Num(3)
    /\ pipes[1].df.rows[2].cells["growth"] = Num(50)

\* C20: calculate_pct_change with a source column that is absent from the
\* table logs an error, raises nothing, leaves the table completely
\* unchanged and returns the pipeline.
C20_AbsentSourceColumn ==
    [][(pOp'.op = "calculate_pct_change" /\ pOp'.args.col \notin ColSet(Before)) =>
         /\ Logged(pLog', ERROR)
         /\ pOp'.exc = NoExc
         /\ pipes' = pipes
         /\ pOp'.ret = pOp'.self]_vars
C20_Witness ==
    /\ pOp.op = "calculate_pct_change"
    /\ pOp.args.col = "gdp"
    /\ Logged(pLog, ERROR)
    /\ pOp.ret = 1
    /\ pipes[1].df.cols = <<"realtime_start", "realtime_end", "value">>
    /\ Len(pipes[1].df.rows) = 2

\* the value of the table the caller holds
HeldTable == pipes[held].df

\* C21: get_cleaned_data returns the pipeline's current table and changes
\* nothing: consecutive calls return equal tables, and the pipeline is left
\* as it was, so that every later operation has the effect it would have had.
C21_ExtractChangesNothing ==
    [][pOp'.op = "get_cleaned_data" =>
         /\ pOp'.exc = NoExc
         /\ pipes' = pipes
         /\ pipes'[ReturnedTable(pOp'.self)].df = Before
         /\ FFill(After) = FFill(Before)
         /\ \A a \in PctArgs, pad \in BOOLEAN :
              PctOutcome(After, a.col, a.new, pad) = PctOutcome(Before, a.col, a.new, pad)]_vars
C21_Witness ==
    /\ pOp.op = "get_cleaned_data"
    /\ pOp.again
    /\ Len(pipes[1].df.rows) = 2
    /\ "value_growth_rate" \in ColSet(pipes[1].df)

\* an operation's precondition is unmet: nothing to fill, none of the fixed
\* columns to drop, or no numeric source column to compute the growth of
Unmet(op, T) ==
    CASE op.op = "handle_missing_values" -> ~HasNull(T)
      [] op.op = "replace_columns" -> ColSet(T) \cap Range(to_be_removed_col) = {}
      [] op.op = "calculate_pct_change" ->
           \/ op.args.col \notin ColSet(T)
           \/ \E i \in DOMAIN T.rows : T.rows[i].cells[op.args.col].k = "str"
      [] OTHER -> TRUE

\* C22: from any table, the empty one and one without a "value" column
\* included, every sequence of handle_missing_values, replace_columns,
\* calculate_pct_change and get_cleaned_data completes without raising, and
\* an operation whose precondition is unmet leaves the table unchanged.
C22_NeverRaises ==
    [][(pOp'.op \in Chainable \cup {"get_cleaned_data"} /\ ~pOp'.args.given) =>
         /\ pOp'.exc = NoExc
         /\ Unmet(pOp', Before) => After = Before]_vars
C22_Witness ==
    /\ pOp.op = "replace_columns"
    /\ ~pOp.args.given
    /\ pOp.again
    /\ pOp.exc = NoExc
    /\ pipes[1].df.cols = <<>>

\* C23: the pipeline has a numeric-coercion operation that can be called on
\* every instance, raises nothing and returns the pipeline, so the dashboard
\* server's chain completes.
C23_CoercionCallable ==
    [][pOp'.op = "str_to_numb" => (pOp'.exc = NoExc /\ pOp'.ret = pOp'.self)]_vars

\* C29: the table get_cleaned_data returns is a copy: the caller's mutation
\* of it leaves the pipeline's table alone, and a later pipeline operation
\* leaves the returned table alone.
C29_ReturnsCopy ==
    [][/\ CallerMutates => pipes' = pipes
       /\ (held # NoHeld /\ held' = held /\ pOp'.op \in Chainable) => HeldTable' = HeldTable]_vars


(* ------------------------------- Logs ---------------------------------- *)
\* the logger a constructed Logs object writes through
LoggerOf(o) == loggers[logs[o].name]
\* o is the only Logs object there is, and it has not been closed
Alone(o) == /\ \A p \in LogObjects \ {o} : logs[p].status = "none"
            /\ ~logs[o].closed

\* C24: two distinct FRED_API clients share no mutable state: no operation
\* on one client changes the attached log handlers or the logging behaviour
\* (the streams a record of any severity is written to) of the other.
C24_ClientsIndependent ==
    [][\A p \in LogObjects :
         (/\ logs[p].status = "ok"
          /\ logs[p].args = FredApiArgs
          /\ lgOp'.o \in LogObjects \ {p}
          /\ logs'[lgOp'.o].args = FredApiArgs)
         => /\ LoggerOf(p)' = LoggerOf(p)
            /\ \A sev \in Severities :
                 Written(LoggerOf(p)', handlers', sev) = Written(LoggerOf(p), handlers, sev)]_vars

\* C25: when the log file cannot be set up while a Logs object is constructed
\* with a log_file, construction completes without raising, a console
\* handler is attached, and every message of the configured level or above
\* logged afterwards is emitted.
C25_FallbackToConsole ==
    (lgOp.op = "init" /\ logs[lgOp.o].args.file # NONE /\ ~logs[lgOp.o].args.fs1
       /\ \A p \in LogObjects \ {lgOp.o} : logs[p].status = "none")
    => /\ lgOp.exc = NoExc
       /\ logs[lgOp.o].status = "ok"
       /\ \E k \in DOMAIN LoggerOf(lgOp.o).handlers :
             handlers[LoggerOf(lgOp.o).handlers[k]].stream \in {"stdout", "stderr"}
       /\ \A sev \in Severities :
             sev >= logs[lgOp.o].args.level.v
             => Written(LoggerOf(lgOp.o), handlers, sev) # {}

\* C26: a message logged through a Logs object constructed with a valid level
\* L is emitted if and only if its severity is at least L; a non-integer
\* level raises TypeError and an integer outside the valid set ValueError.
C26_LevelThreshold ==
    /\ (lgOp.op = "log" /\ Alone(lgOp.o))
       => (lgOp.out # {} <=> lgOp.sev >= logs[lgOp.o].args.level.v)
    /\ lgOp.op = "init"
       => /\ ~logs[lgOp.o].args.level.int => lgOp.exc = "TypeError"
          /\ (logs[lgOp.o].args.level.int /\ logs[lgOp.o].args.level.v \notin CONST_LOG_LEVELS)
             => lgOp.exc = "ValueError"

\* C27: after Logs.close(), for every handler configuration, none of the
\* handlers the object added is attached to its logger, each of them is
\* closed, and the list of active handlers is empty.
C27_CloseRemovesAll ==
    lgOp.op = "close"
    => /\ logs[lgOp.o].active = <<>>
       /\ \A h \in DOMAIN handlers :
            handlers[h].owner = lgOp.o
            => /\ h \notin Range(LoggerOf(lgOp.o).handlers)
               /\ handlers[h].closed

\* C28: with console logging and every valid level, a record of severity
\* DEBUG, INFO or WARNING is written only to stdout, one of severity ERROR or
\* CRITICAL only to stderr, and none to both.
C28_StreamsSplit ==
    (lgOp.op = "log" /\ logs[lgOp.o].args.file = NONE /\ Alone(lgOp.o))
    => lgOp.out \subseteq (IF lgOp.sev <= WARNING THEN {"stdout"} ELSE {"stderr"})


(* --------------------------- a shared client --------------------------- *)
\* C30: under every interleaving of two tasks that use the same client as a
\* scoped resource, a session on which a request is in flight is not closed
\* until that request has completed.
C30_InFlightSessionOpen ==
    \A t \in SharedTasks : pc[t] \in {"get", "json"} => ~closed[req[t].session]

====
